---- MODULE Spec2Model ----
(***************************************************************************)
(* The stock ledger of oldtree: the StockMovement.save transaction of the  *)
(* backend (stock_api/models.py), the two views the page talks to          *)
(* (StockMovementCreateView, StockLevelViewSet) and the page's read of the *)
(* stock table (script.js, fetchAndPopulateTable).                         *)
(*                                                                         *)
(* The database is PostgreSQL under Django's default isolation level,      *)
(* READ COMMITTED: a statement sees what is committed when it runs, a row  *)
(* written by an open transaction is locked until that transaction ends,   *)
(* and the writes of a transaction become visible together at COMMIT or    *)
(* not at all.                                                             *)
(***************************************************************************)
EXTENDS Integers, Sequences, FiniteSets, TLC

\* ------------------------------------------------------------------ bounds
\* The number of POST /stock-movements requests one behaviour holds.
MaxCalls == 3
\* The number of GET /stock-levels requests one behaviour holds.
MaxReads == 2
MaxSubmits == 2

\* ---------------------------------------------------------- reference data
Procs == {"w1", "w2"}
Variants == {"variantA", "variantB"}
Locations == {"loc1"}
\* What a request may name: the reference data and one id that is in neither.
VariantIds == Variants \cup {"variantX"}
LocationIds == Locations \cup {"locX"}
QuantityChanges == {-3, 0, 10}
Notes == {"note"}

Requests ==
    [product_variant : VariantIds, location : LocationIds,
     quantity_change : QuantityChanges, notes : Notes]

NoRequest == [product_variant |-> "", location |-> "", quantity_change |-> 0, notes |-> ""]
NoRow == [id |-> 0, product_variant |-> "", location |-> "", quantity |-> 0]
NoDb == [levels |-> {}, movements |-> {}]

\* The variants and locations the API serves, as their serializers show them.
Fetchers == {"f1"}
VariantData ==
    [variantA |-> [product |-> "Shirt", size |-> "M", color |-> "Red"],
     variantB |-> [product |-> "Apron", size |-> "L", color |-> "Blue"]]
LocationData == [loc1 |-> [name |-> "Warehouse"]]
\* The order of the product names under localeCompare.
ProductRank == [Apron |-> 1, Shirt |-> 2]
NoResponse == [ok |-> FALSE, body |-> << >>]
NoListing == [valid |-> FALSE, rows |-> {}, repeat |-> FALSE]

\* The runs of fetchAndPopulateTable on the full page: f1 is the initial load
\* and the refresh button, f0 the re-fetch handleFormSubmit awaits.
PageFetchers == {"f1", "f0"}
\* What the user may enter in the movement form; the quantity is text.
EmptyForm == [product_variant |-> "", location |-> "", quantity_change |-> "", notes |-> ""]
FormInputs ==
    {[product_variant |-> "variantA", location |-> "loc1", quantity_change |-> "10",
      notes |-> "note"],
     [product_variant |-> "variantB", location |-> "loc1", quantity_change |-> "-3",
      notes |-> "note"],
     [product_variant |-> "variantA", location |-> "loc1", quantity_change |-> "0",
      notes |-> "note"]}
\* The integer the serializer reads from the quantity text.
ParseInt == [q \in {"10", "-3", "0"} |-> IF q = "10" THEN 10 ELSE IF q = "-3" THEN -3 ELSE 0]
ButtonReady == [disabled |-> FALSE, label |-> "Submit Movement"]
ButtonBusy == [disabled |-> TRUE, label |-> "Submitting..."]

VARIABLES
    stock_levels,      \* the committed StockLevel table: a set of rows
    stock_movements,   \* the committed StockMovement table: a set of rows
    pc,                \* pc[p]: where worker p stands in StockMovement.save
    request,           \* request[p]: the validated data of the movement p saves
    txid,              \* txid[p]: the number of p's call (its primary keys)
    stock_level,       \* stock_level[p]: the Python object get_or_create returned
    created,           \* created[p]: p's transaction inserted its StockLevel row
    written,           \* written[p]: p's uncommitted version of its StockLevel row
    logged,            \* logged[p]: p's transaction inserted its StockMovement row
    status,            \* status[p]: the HTTP status of p's last response (0: none)
    calls,             \* POST requests received so far
    before,            \* before[p]: the committed tables as they would be without p's call
    lastData,          \* lastData[p]: the body of p's last request
    failedAt,          \* failedAt[p]: the statement at which p's last call failed
    fetchPc,           \* fetchPc[f]: where run f of fetchAndPopulateTable stands
    response,          \* response[f]: what the GET of run f was answered
    stockTableBody,    \* the rows of the page's stock table
    loadingSpinner,    \* the spinner is shown (and the table body hidden)
    emptyState,        \* the empty-state element is shown
    alert,             \* the last pop-up fired by the table fetch
    reads,             \* GET /stock-levels requests issued so far
    listed,            \* the previous listing, while no movement was committed since
    submitPc,          \* where handleFormSubmit stands
    postCall,          \* the number the pending POST gets at the backend
    postBody,          \* the JSON body of the pending POST
    form,              \* the contents of the movement form
    submitButton,      \* the submit button: disabled or not, and its label
    submitted,         \* how the last run of handleFormSubmit ended
    dropPc,            \* where fetchAndPopulateDropdowns stands
    variantSelect,     \* what the variant dropdown holds
    locationSelect     \* what the location dropdown holds

vars == <<stock_levels, stock_movements, pc, request, txid, stock_level, created,
          written, logged, status, calls, before, lastData, failedAt, fetchPc, response,
          stockTableBody, loadingSpinner, emptyState, alert, reads, listed, submitPc,
          postCall, postBody, form, submitButton, submitted, dropPc, variantSelect,
          locationSelect>>
server == <<stock_levels, stock_movements, pc, request, txid, stock_level, created,
            written, logged, status, calls, before, lastData, failedAt>>
page == <<fetchPc, response, stockTableBody, loadingSpinner, emptyState, alert, reads>>
submission == <<submitPc, postCall, postBody, form, submitButton, submitted>>
dropdowns == <<dropPc, variantSelect, locationSelect>>

\* ----------------------------------------------------------------- helpers
TxnPcs == {"get_or_create", "create", "save", "super_save", "commit"}

\* StockLevel.objects.filter(product_variant=v, location=l) on a table.
RowsOf(levels, v, l) == {r \in levels : r.product_variant = v /\ r.location = l}

MovementsOf(movements, v, l) ==
    {m \in movements : m.product_variant = v /\ m.location = l}

\* The committed tables, as one value.
Db == [levels |-> stock_levels, movements |-> stock_movements]

\* The sum of quantity_change over a set of movements.
RECURSIVE SumChanges(_)
SumChanges(ms) ==
    IF ms = {} THEN 0
    ELSE LET m == CHOOSE x \in ms : TRUE
         IN m.quantity_change + SumChanges(ms \ {m})

\* The quantity on hand of a key in a table: the sum over its rows, 0 without one.
RECURSIVE SumQuantity(_)
SumQuantity(rows) ==
    IF rows = {} THEN 0
    ELSE LET r == CHOOSE x \in rows : TRUE
         IN r.quantity + SumQuantity(rows \ {r})

Quantity(levels, v, l) == SumQuantity(RowsOf(levels, v, l))

\* The serializer's validation (Movement Record validation): a nonzero delta
\* and a variant and a location that exist.
is_valid(data) ==
    /\ data.quantity_change # 0
    /\ data.product_variant \in Variants
    /\ data.location \in Locations

\* The uniqueness of (product_variant, location) that get_or_create relies on:
\* an INSERT of a key some committed row holds raises IntegrityError.
unique_together(levels, v, l) == RowsOf(levels, v, l) = {}

\* The StockMovement row p's transaction inserts.
MovementRow(p) ==
    [id |-> txid[p], product_variant |-> request[p].product_variant,
     location |-> request[p].location,
     quantity_change |-> request[p].quantity_change, notes |-> request[p].notes]

\* Publish with the movement saved over the earlier movement of its key, as
\* update_or_create would.
Publish_overwrite(db, p) ==
    [levels |-> IF written[p] = NoRow THEN db.levels
                ELSE {r \in db.levels : r.id # written[p].id} \cup {written[p]},
     movements |-> IF logged[p]
                   THEN {m \in db.movements :
                            ~ (m.product_variant = request[p].product_variant
                               /\ m.location = request[p].location)}
                        \cup {MovementRow(p)}
                   ELSE db.movements]

\* The tables after the pending writes of p's transaction are applied to db.
Publish(db, p) ==
    [levels |-> IF written[p] = NoRow THEN db.levels
                ELSE {r \in db.levels : r.id # written[p].id} \cup {written[p]},
     movements |-> IF logged[p] THEN db.movements \cup {MovementRow(p)}
                   ELSE db.movements]

\* The end of p's request: its transaction's state is dropped.
EndRequest(p, code) ==
    /\ pc' = [pc EXCEPT ![p] = "idle"]
    /\ status' = [status EXCEPT ![p] = code]
    /\ request' = [request EXCEPT ![p] = NoRequest]
    /\ txid' = [txid EXCEPT ![p] = 0]
    /\ stock_level' = [stock_level EXCEPT ![p] = NoRow]
    /\ created' = [created EXCEPT ![p] = FALSE]
    /\ written' = [written EXCEPT ![p] = NoRow]
    /\ logged' = [logged EXCEPT ![p] = FALSE]

\* -------------------------------------------------------------------- Init
InitBackend ==
    /\ stock_levels = {}
    /\ stock_movements = {}
    /\ pc = [p \in Procs |-> "idle"]
    /\ request = [p \in Procs |-> NoRequest]
    /\ txid = [p \in Procs |-> 0]
    /\ stock_level = [p \in Procs |-> NoRow]
    /\ created = [p \in Procs |-> FALSE]
    /\ written = [p \in Procs |-> NoRow]
    /\ logged = [p \in Procs |-> FALSE]
    /\ status = [p \in Procs |-> 0]
    /\ calls = 0
    /\ before = [p \in Procs |-> NoDb]
    /\ lastData = [p \in Procs |-> NoRequest]
    /\ failedAt = [p \in Procs |-> "none"]
    /\ listed = NoListing

\* The form side of the loaded page: the form is empty, the button ready, and
\* the initial fetchAndPopulateDropdowns() waits for its two GETs.
InitForm ==
    /\ submitPc = "idle"
    /\ postCall = 0
    /\ postBody = EmptyForm
    /\ form = EmptyForm
    /\ submitButton = ButtonReady
    /\ submitted = "none"
    /\ dropPc = "pending"
    /\ variantSelect = "initial"
    /\ locationSelect = "initial"

Init ==
    /\ InitBackend
    /\ InitForm
    \* The page has loaded: the initial fetchAndPopulateTable() has run up to
    \* its first await, so the spinner shows and one GET is in flight.
    /\ fetchPc = [f \in Fetchers |-> "pending"]
    /\ response = [f \in Fetchers |-> NoResponse]
    /\ stockTableBody = << >>
    /\ loadingSpinner = TRUE
    /\ emptyState = FALSE
    /\ alert = "none"
    /\ reads = 1

\* ----------------------------------------------------------------- actions
\* POST /stock-movements reaches StockMovementCreateView on worker p: the
\* serializer validates the data; invalid data is answered 400 and save() is
\* not called; valid data enters save(), whose first statement opens the
\* transaction.
HandlePost(p, data, valid) ==
    /\ pc[p] = "idle"
    /\ calls < MaxCalls
    /\ calls' = calls + 1
    /\ lastData' = [lastData EXCEPT ![p] = data]
    /\ failedAt' = [failedAt EXCEPT ![p] = "none"]
    /\ before' = [before EXCEPT ![p] =
                    [levels |-> stock_levels, movements |-> stock_movements]]
    /\ IF valid
       THEN /\ pc' = [pc EXCEPT ![p] = "get_or_create"]
            /\ request' = [request EXCEPT ![p] = data]
            /\ txid' = [txid EXCEPT ![p] = calls + 1]
            /\ status' = [status EXCEPT ![p] = 0]
       ELSE /\ status' = [status EXCEPT ![p] = 400]
            /\ UNCHANGED <<pc, request, txid>>
    /\ UNCHANGED <<stock_levels, stock_movements, stock_level, created, written, logged,
                   page, listed,
                   submission, dropdowns>>

\* The view with a serializer that lets a zero quantity_change through.
StockMovementCreateView_zero(p, data) ==
    HandlePost(p, data, data.product_variant \in Variants /\ data.location \in Locations)

\* The view with a serializer that does not look the variant and location up.
StockMovementCreateView_nofk(p, data) ==
    HandlePost(p, data, data.quantity_change # 0)

StockMovementCreateView(p, data) == HandlePost(p, data, is_valid(data))

\* get_or_create, its SELECT: the committed row of the key, if there is one.
get_or_create_get(p) ==
    /\ pc[p] = "get_or_create"
    /\ LET rows == RowsOf(stock_levels, request[p].product_variant, request[p].location)
       IN IF rows # {}
          THEN /\ stock_level' = [stock_level EXCEPT ![p] = CHOOSE r \in rows : TRUE]
               /\ pc' = [pc EXCEPT ![p] = "save"]
          ELSE /\ pc' = [pc EXCEPT ![p] = "create"]
               /\ UNCHANGED stock_level
    /\ UNCHANGED <<stock_levels, stock_movements, request, txid, created, written,
                   logged, status, calls, before, lastData, failedAt, page, listed,
                   submission, dropdowns>>

\* A get followed by a plain create: the INSERT neither waits for nor fails
\* on another row of the key.
get_or_create_create_unguarded(p) ==
    /\ pc[p] = "create"
    /\ LET new == [id |-> txid[p], product_variant |-> request[p].product_variant,
                   location |-> request[p].location, quantity |-> 0]
       IN /\ created' = [created EXCEPT ![p] = TRUE]
          /\ written' = [written EXCEPT ![p] = new]
          /\ stock_level' = [stock_level EXCEPT ![p] = new]
    /\ pc' = [pc EXCEPT ![p] = "save"]
    /\ UNCHANGED <<stock_levels, stock_movements, request, txid, logged, status, calls,
                   before, lastData, failedAt, page, listed,
                   submission, dropdowns>>

\* get_or_create, its INSERT with quantity 0. It waits while another open
\* transaction holds an uncommitted row of the same key; when a committed row
\* of the key exists by now the INSERT raises IntegrityError, which
\* get_or_create catches to read that row instead.
get_or_create_create(p) ==
    /\ pc[p] = "create"
    /\ ~ \E q \in Procs \ {p} :
           /\ created[q]
           /\ written[q].product_variant = request[p].product_variant
           /\ written[q].location = request[p].location
    /\ LET v == request[p].product_variant
           l == request[p].location
           new == [id |-> txid[p], product_variant |-> v, location |-> l, quantity |-> 0]
       IN IF unique_together(stock_levels, v, l)
          THEN /\ created' = [created EXCEPT ![p] = TRUE]
               /\ written' = [written EXCEPT ![p] = new]
               /\ stock_level' = [stock_level EXCEPT ![p] = new]
          ELSE /\ stock_level' = [stock_level EXCEPT ![p] =
                                    CHOOSE r \in RowsOf(stock_levels, v, l) : TRUE]
               /\ UNCHANGED <<created, written>>
    /\ pc' = [pc EXCEPT ![p] = "save"]
    /\ UNCHANGED <<stock_levels, stock_movements, request, txid, logged, status, calls,
                   before, lastData, failedAt, page, listed,
                   submission, dropdowns>>

\* save() with a floor check: a change that would take the quantity below zero
\* raises, the transaction is rolled back and the view answers 409.
stock_level_save_floor(p) ==
    /\ pc[p] = "save"
    /\ ~ \E q \in Procs \ {p} : written[q] # NoRow /\ written[q].id = stock_level[p].id
    /\ IF stock_level[p].quantity + request[p].quantity_change < 0
       THEN /\ EndRequest(p, 409)
            /\ UNCHANGED <<stock_levels, stock_movements, calls, before, lastData,
                           failedAt, page, listed, submission, dropdowns>>
       ELSE /\ LET sl == [stock_level[p] EXCEPT !.quantity = @ + request[p].quantity_change]
               IN /\ stock_level' = [stock_level EXCEPT ![p] = sl]
                  /\ written' = [written EXCEPT ![p] = sl]
            /\ pc' = [pc EXCEPT ![p] = "super_save"]
            /\ UNCHANGED <<stock_levels, stock_movements, request, txid, created, logged,
                           status, calls, before, lastData, failedAt, page, listed,
                           submission, dropdowns>>

\* stock_level.quantity += self.quantity_change; stock_level.save(): the UPDATE
\* writes the quantity computed from the object read earlier. It waits while
\* another open transaction holds an uncommitted version of the row.
stock_level_save(p) ==
    /\ pc[p] = "save"
    /\ ~ \E q \in Procs \ {p} : written[q] # NoRow /\ written[q].id = stock_level[p].id
    /\ LET sl == [stock_level[p] EXCEPT !.quantity = @ + request[p].quantity_change]
       IN /\ stock_level' = [stock_level EXCEPT ![p] = sl]
          /\ written' = [written EXCEPT ![p] = sl]
    /\ pc' = [pc EXCEPT ![p] = "super_save"]
    /\ UNCHANGED <<stock_levels, stock_movements, request, txid, created, logged, status,
                   calls, before, lastData, failedAt, page, listed,
                   submission, dropdowns>>

\* save() without its call of super().save().
super_save_skipped(p) ==
    /\ pc[p] = "super_save"
    /\ pc' = [pc EXCEPT ![p] = "commit"]
    /\ UNCHANGED <<stock_levels, stock_movements, request, txid, stock_level, created,
                   written, logged, status, calls, before, lastData, failedAt, page, listed,
                   submission, dropdowns>>

\* super().save(): the INSERT of the movement itself.
super_save(p) ==
    /\ pc[p] = "super_save"
    /\ logged' = [logged EXCEPT ![p] = TRUE]
    /\ pc' = [pc EXCEPT ![p] = "commit"]
    /\ UNCHANGED <<stock_levels, stock_movements, request, txid, stock_level, created,
                   written, status, calls, before, lastData, failedAt, page, listed,
                   submission, dropdowns>>

\* The atomic block ends without an exception: COMMIT makes the writes of the
\* transaction visible together, and the view answers 201.
atomic_commit(p) ==
    /\ pc[p] = "commit"
    /\ LET db == Publish(Db, p)
       IN /\ stock_levels' = db.levels
          /\ stock_movements' = db.movements
    /\ before' = [q \in Procs |->
                    IF q = p THEN NoDb
                    ELSE IF pc[q] \in TxnPcs \/ status[q] \in {400, 500}
                         THEN Publish(before[q], p)
                         ELSE before[q]]
    /\ listed' = NoListing
    /\ EndRequest(p, 201)
    /\ UNCHANGED <<calls, lastData, failedAt, page, submission, dropdowns>>

\* save() without transaction.atomic(): each statement is committed as it
\* runs, so an exception leaves what was written so far.
atomic_rollback_partial(p) ==
    /\ pc[p] \in TxnPcs
    /\ LET db == Publish(Db, p)
       IN /\ stock_levels' = db.levels
          /\ stock_movements' = db.movements
    /\ failedAt' = [failedAt EXCEPT ![p] = pc[p]]
    /\ EndRequest(p, 500)
    /\ UNCHANGED <<calls, before, lastData, page, listed,
                   submission, dropdowns>>

\* An exception inside the atomic block (the storage fails at any statement,
\* or at COMMIT): the transaction is rolled back and the view answers 500.
atomic_rollback(p) ==
    /\ pc[p] \in TxnPcs
    /\ failedAt' = [failedAt EXCEPT ![p] = pc[p]]
    /\ EndRequest(p, 500)
    /\ UNCHANGED <<stock_levels, stock_movements, calls, before, lastData, page, listed,
                   submission, dropdowns>>

\* ---------------------------------------------------------------- the page
\* StockLevelSerializer: a row with its variant and location spelled out.
StockLevelSerializer(r) ==
    [id |-> r.id, product_variant |-> VariantData[r.product_variant],
     location |-> LocationData[r.location], quantity |-> r.quantity]

Range(seq) == {seq[i] : i \in DOMAIN seq}

\* The JSON lists a queryset without ORDER BY may produce: the serialized rows
\* in any order.
Listings(levels) ==
    {sq \in [1..Cardinality(levels) -> {StockLevelSerializer(r) : r \in levels}] :
        Range(sq) = {StockLevelSerializer(r) : r \in levels}}

\* a.product_variant.product.localeCompare(b.product_variant.product) <= 0
localeCompareLeq(a, b) ==
    ProductRank[a.product_variant.product] <= ProductRank[b.product_variant.product]

\* Array.prototype.sort with that comparator: a stable sort by product name.
RECURSIVE sort(_)
sort(items) ==
    IF items = << >> THEN << >>
    ELSE LET rest == sort(Tail(items))
             x == Head(items)
             \* x goes before the first item of rest that it does not follow
             k == Cardinality({i \in DOMAIN rest :
                                \A j \in 1..i : ~ localeCompareLeq(x, rest[j])})
         IN SubSeq(rest, 1, k) \o <<x>> \o SubSeq(rest, k + 1, Len(rest))

\* The <tr> built from one item of the listing.
TableRow(item) ==
    [product |-> item.product_variant.product,
     detail |-> <<item.product_variant.size, item.product_variant.color>>,
     location |-> item.location.name, quantity |-> item.quantity]

\* fetchAndPopulateTable up to its await: the refresh button is clicked.
fetchAndPopulateTable(f) ==
    /\ fetchPc[f] = "idle"
    /\ reads < MaxReads
    /\ reads' = reads + 1
    /\ loadingSpinner' = TRUE
    /\ emptyState' = FALSE
    /\ fetchPc' = [fetchPc EXCEPT ![f] = "pending"]
    /\ UNCHANGED <<server, submission, dropdowns, response, stockTableBody, alert, listed>>

\* A listing that materialises a row of quantity 0 for every key without one
\* (get_or_create in the read path).
StockLevelViewSet_creating(f) ==
    /\ fetchPc[f] = "pending"
    /\ \E body \in Listings(stock_levels) :
          /\ response' = [response EXCEPT ![f] = [ok |-> TRUE, body |-> body]]
          /\ listed' = [valid |-> TRUE, rows |-> Range(body), repeat |-> listed.valid]
    /\ stock_levels' = stock_levels \cup
          {[id |-> 9, product_variant |-> v, location |-> l, quantity |-> 0] :
             v \in {x \in Variants : \E l \in Locations : RowsOf(stock_levels, x, l) = {}},
             l \in Locations}
    /\ fetchPc' = [fetchPc EXCEPT ![f] = "responded"]
    /\ UNCHANGED <<stock_movements, pc, request, txid, stock_level, created, written,
                   logged, status, calls, before, lastData, failedAt, stockTableBody,
                   loadingSpinner, emptyState, alert, reads, submission, dropdowns>>

\* GET /stock-levels is served by StockLevelViewSet: all StockLevel rows that
\* are committed, serialized.
StockLevelViewSet(f) ==
    /\ fetchPc[f] = "pending"
    /\ \E body \in Listings(stock_levels) :
          /\ response' = [response EXCEPT ![f] = [ok |-> TRUE, body |-> body]]
          /\ listed' = [valid |-> TRUE, rows |-> Range(body), repeat |-> listed.valid]
    /\ fetchPc' = [fetchPc EXCEPT ![f] = "responded"]
    /\ UNCHANGED <<server, submission, dropdowns, stockTableBody, loadingSpinner, emptyState, alert, reads>>

\* The GET is rejected (network error) or answered with a status that is not ok.
fetchFails(f) ==
    /\ fetchPc[f] = "pending"
    /\ response' = [response EXCEPT ![f] = NoResponse]
    /\ fetchPc' = [fetchPc EXCEPT ![f] = "responded"]
    /\ UNCHANGED <<server, submission, dropdowns, stockTableBody, loadingSpinner, emptyState, alert, reads, listed>>

\* fetchAndPopulateTable after its await: the table is rebuilt from the
\* listing, sorted by product name; a failure fires the error pop-up and
\* shows the empty state; the spinner is hidden either way.
\* fetchAndPopulateTable appending the rows in the order received.
PopulateTable_unsorted(f) ==
    /\ fetchPc[f] = "responded"
    /\ IF response[f].ok
       THEN LET stockLevels == response[f].body
            IN /\ stockTableBody' =
                     [i \in DOMAIN stockLevels |-> TableRow(stockLevels[i])]
               /\ emptyState' = IF Len(stockLevels) = 0 THEN TRUE ELSE emptyState
       ELSE /\ emptyState' = TRUE
            /\ UNCHANGED stockTableBody
    /\ loadingSpinner' = FALSE
    /\ response' = [response EXCEPT ![f] = NoResponse]
    /\ fetchPc' = [fetchPc EXCEPT ![f] = "idle"]

\* fetchAndPopulateTable without the branch on an empty listing.
PopulateTable_bare(f) ==
    /\ fetchPc[f] = "responded"
    /\ IF response[f].ok
       THEN LET stockLevels == response[f].body
            IN /\ stockTableBody' =
                     [i \in DOMAIN stockLevels |-> TableRow(sort(stockLevels)[i])]
               /\ UNCHANGED emptyState
       ELSE /\ emptyState' = TRUE
            /\ UNCHANGED stockTableBody
    /\ loadingSpinner' = FALSE
    /\ response' = [response EXCEPT ![f] = NoResponse]
    /\ fetchPc' = [fetchPc EXCEPT ![f] = "idle"]

PopulateTable(f) ==
    /\ fetchPc[f] = "responded"
    /\ IF response[f].ok
       THEN LET stockLevels == response[f].body
            IN /\ stockTableBody' =
                     [i \in DOMAIN stockLevels |-> TableRow(sort(stockLevels)[i])]
               /\ emptyState' = IF Len(stockLevels) = 0 THEN TRUE ELSE emptyState
       ELSE /\ emptyState' = TRUE
            /\ UNCHANGED stockTableBody
    /\ loadingSpinner' = FALSE
    /\ response' = [response EXCEPT ![f] = NoResponse]
    /\ fetchPc' = [fetchPc EXCEPT ![f] = "idle"]

\* A run that was started by the page load or the refresh button.
fetchAndPopulateTable_then(f) ==
    /\ PopulateTable(f)
    /\ alert' = IF response[f].ok THEN alert ELSE "error"
    /\ UNCHANGED <<server, submission, dropdowns, reads, listed>>

Next ==
    \/ \E p \in Procs, data \in Requests : StockMovementCreateView(p, data)
    \/ \E p \in Procs : get_or_create_get(p)
    \/ \E p \in Procs : get_or_create_create(p)
    \/ \E p \in Procs : stock_level_save(p)
    \/ \E p \in Procs : super_save(p)
    \/ \E p \in Procs : atomic_commit(p)
    \/ \E p \in Procs : atomic_rollback(p)

Spec == Init /\ [][Next]_vars

\* The page and one worker: movements are applied one at a time while the
\* page reads the stock levels.
NextPage ==
    \/ \E data \in Requests : StockMovementCreateView("w1", data)
    \/ get_or_create_get("w1")
    \/ get_or_create_create("w1")
    \/ stock_level_save("w1")
    \/ super_save("w1")
    \/ atomic_commit("w1")
    \/ atomic_rollback("w1")
    \/ \E f \in Fetchers : fetchAndPopulateTable(f)
    \/ \E f \in Fetchers : StockLevelViewSet(f)
    \/ \E f \in Fetchers : fetchFails(f)
    \/ \E f \in Fetchers : fetchAndPopulateTable_then(f)

SpecPage == Init /\ [][NextPage]_vars

\* ------------------------------------------------------------ the full page
\* The page as the only client of one backend worker: the table fetches, the
\* dropdown fetch and the movement form.
InitUI ==
    /\ InitBackend
    /\ InitForm
    /\ fetchPc = [f \in PageFetchers |-> IF f = "f1" THEN "pending" ELSE "idle"]
    /\ response = [f \in PageFetchers |-> NoResponse]
    /\ stockTableBody = << >>
    /\ loadingSpinner = TRUE
    /\ emptyState = FALSE
    /\ alert = "none"
    /\ reads = 1

\* fetchAndPopulateDropdowns after both GETs were answered ok: the options.
fetchAndPopulateDropdowns_then ==
    /\ dropPc = "pending"
    /\ variantSelect' = "options"
    /\ locationSelect' = "options"
    /\ dropPc' = "done"
    /\ UNCHANGED <<server, page, submission, listed>>

\* fetchAndPopulateDropdowns when a GET is rejected or not ok: the catch
\* block puts an error option in both dropdowns.
fetchAndPopulateDropdowns_catch ==
    /\ dropPc = "pending"
    /\ variantSelect' = "Error loading variants"
    /\ locationSelect' = "Error loading locations"
    /\ dropPc' = "done"
    /\ UNCHANGED <<server, page, submission, listed>>

\* The user fills the form in, choosing among the options of the dropdowns;
\* the edits considered are those made between two submissions.
userFillsForm(data) ==
    /\ variantSelect = "options" /\ locationSelect = "options"
    /\ submitPc = "idle"
    /\ form # data
    /\ form' = data
    /\ UNCHANGED <<server, page, dropdowns, listed, submitPc, postCall, postBody,
                   submitButton, submitted>>

\* handleFormSubmit leaving the submit button as it is.
handleFormSubmit_enabled ==
    /\ ~ submitButton.disabled
    /\ form # EmptyForm
    /\ calls < MaxSubmits
    /\ postBody' = form
    /\ postCall' = calls + 1
    /\ submitPc' = "sent"
    /\ submitted' = "pending"
    /\ UNCHANGED <<server, page, dropdowns, listed, form, submitButton>>

\* handleFormSubmit up to its await: a submit event, which a disabled submit
\* button does not let through; the button is disabled and the POST issued.
handleFormSubmit ==
    /\ ~ submitButton.disabled
    /\ form # EmptyForm
    /\ calls < MaxSubmits
    /\ submitButton' = ButtonBusy
    /\ postBody' = form
    /\ postCall' = calls + 1
    /\ submitPc' = "sent"
    /\ submitted' = "pending"
    /\ UNCHANGED <<server, page, dropdowns, listed, form>>

\* The serializer's reading of the JSON body.
Deserialize(body) ==
    [product_variant |-> body.product_variant, location |-> body.location,
     quantity_change |-> ParseInt[body.quantity_change], notes |-> body.notes]

\* The POST reaches the backend.
postArrives ==
    /\ submitPc = "sent"
    /\ calls < postCall
    /\ StockMovementCreateView("w1", Deserialize(postBody))

\* handleFormSubmit ending without its finally block.
RestoreButton_skipped ==
    /\ UNCHANGED submitButton
    /\ submitPc' = "idle"
    /\ postCall' = 0
    /\ postBody' = EmptyForm

\* The finally block of handleFormSubmit.
RestoreButton ==
    /\ submitButton' = ButtonReady
    /\ submitPc' = "idle"
    /\ postCall' = 0
    /\ postBody' = EmptyForm

\* handleFormSubmit resetting the form before response.ok is looked at.
handleFormSubmit_then_resetting ==
    /\ submitPc = "sent"
    /\ calls >= postCall
    /\ pc["w1"] = "idle"
    /\ form' = EmptyForm
    /\ IF status["w1"] = 201
       THEN /\ loadingSpinner' = TRUE
            /\ emptyState' = FALSE
            /\ fetchPc' = [fetchPc EXCEPT !["f0"] = "pending"]
            /\ submitPc' = "refetching"
            /\ UNCHANGED <<alert, submitButton, submitted, postCall, postBody>>
       ELSE /\ alert' = "Submission Failed"
            /\ submitted' = IF status["w1"] = 400 THEN "not ok" ELSE "not ok, no JSON"
            /\ RestoreButton
            /\ UNCHANGED <<loadingSpinner, emptyState, fetchPc>>
    /\ UNCHANGED <<server, dropdowns, listed, response, stockTableBody, reads>>

\* handleFormSubmit showing the success pop-up before the re-fetch is awaited.
handleFormSubmit_then_unawaited ==
    /\ submitPc = "sent"
    /\ calls >= postCall
    /\ pc["w1"] = "idle"
    /\ IF status["w1"] = 201
       THEN /\ form' = EmptyForm
            /\ loadingSpinner' = TRUE
            /\ emptyState' = FALSE
            /\ fetchPc' = [fetchPc EXCEPT !["f0"] = "pending"]
            /\ submitPc' = "refetching"
            /\ alert' = "Movement Registered!"
            /\ submitted' = "success"
            /\ UNCHANGED <<submitButton, postCall, postBody>>
       ELSE /\ alert' = "Submission Failed"
            /\ submitted' = IF status["w1"] = 400 THEN "not ok" ELSE "not ok, no JSON"
            /\ RestoreButton
            /\ UNCHANGED <<form, loadingSpinner, emptyState, fetchPc>>
    /\ UNCHANGED <<server, dropdowns, listed, response, stockTableBody, reads>>

\* handleFormSubmit after the POST was answered. 201: the form is reset and
\* fetchAndPopulateTable is called, which runs up to its await. Otherwise the
\* error body is read (JSON for 400, not JSON for 500) and the error thrown is
\* caught: the error pop-up, then the finally block.
handleFormSubmit_then ==
    /\ submitPc = "sent"
    /\ calls >= postCall
    /\ pc["w1"] = "idle"
    /\ IF status["w1"] = 201
       THEN /\ form' = EmptyForm
            /\ loadingSpinner' = TRUE
            /\ emptyState' = FALSE
            /\ fetchPc' = [fetchPc EXCEPT !["f0"] = "pending"]
            /\ submitPc' = "refetching"
            /\ UNCHANGED <<alert, submitButton, submitted, postCall, postBody>>
       ELSE /\ alert' = "Submission Failed"
            /\ submitted' = IF status["w1"] = 400 THEN "not ok" ELSE "not ok, no JSON"
            /\ RestoreButton
            /\ UNCHANGED <<form, loadingSpinner, emptyState, fetchPc>>
    /\ UNCHANGED <<server, dropdowns, listed, response, stockTableBody, reads>>

\* handleFormSubmit without its catch and finally blocks: the rejection of the
\* POST ends the handler.
handleFormSubmit_uncaught ==
    /\ submitPc = "sent"
    /\ submitted' = "rejected"
    /\ submitPc' = "unhandledrejection"
    /\ UNCHANGED <<server, dropdowns, listed, form, fetchPc, response, stockTableBody,
                   loadingSpinner, emptyState, reads, alert, submitButton, postCall,
                   postBody>>

\* handleFormSubmit when the POST is rejected (network error): the catch block.
handleFormSubmit_catch ==
    /\ submitPc = "sent"
    /\ alert' = "Submission Failed"
    /\ submitted' = "rejected"
    /\ RestoreButton
    /\ UNCHANGED <<server, dropdowns, listed, form, fetchPc, response, stockTableBody,
                   loadingSpinner, emptyState, reads>>

\* The awaited fetchAndPopulateTable finishes (its own catch block fires the
\* load error pop-up on a failure) and handleFormSubmit goes on in the same
\* turn: the success pop-up, then the finally block.
handleFormSubmit_refetched ==
    /\ submitPc = "refetching"
    /\ PopulateTable("f0")
    /\ alert' = "Movement Registered!"
    /\ submitted' = "success"
    /\ RestoreButton
    /\ UNCHANGED <<server, dropdowns, listed, form, reads>>

NextUI ==
    \/ fetchAndPopulateDropdowns_then
    \/ fetchAndPopulateDropdowns_catch
    \/ \E data \in FormInputs : userFillsForm(data)
    \/ handleFormSubmit
    \/ postArrives
    \/ get_or_create_get("w1")
    \/ get_or_create_create("w1")
    \/ stock_level_save("w1")
    \/ super_save("w1")
    \/ atomic_commit("w1")
    \/ atomic_rollback("w1")
    \/ handleFormSubmit_then
    \/ handleFormSubmit_catch
    \/ handleFormSubmit_refetched
    \/ fetchAndPopulateTable("f1")
    \/ \E f \in PageFetchers : StockLevelViewSet(f)
    \/ \E f \in PageFetchers : fetchFails(f)
    \/ fetchAndPopulateTable_then("f1")

SpecUI == InitUI /\ [][NextUI]_vars

\* The requests of the page settle (answered or rejected), the backend serves
\* the request it has accepted, and the continuation of a settled await runs.
PostSettles == postArrives \/ handleFormSubmit_catch
ServesPost ==
    \/ get_or_create_get("w1")
    \/ get_or_create_create("w1")
    \/ stock_level_save("w1")
    \/ super_save("w1")
    \/ atomic_commit("w1")
    \/ atomic_rollback("w1")
GetSettles(f) == StockLevelViewSet(f) \/ fetchFails(f)

\* The steps that carry a submission on, and those that carry on a table
\* fetch started by the page load or the refresh button: while one of them
\* can be taken, one eventually is.
SubmissionSettles ==
    \/ PostSettles
    \/ ServesPost
    \/ handleFormSubmit_then
    \/ GetSettles("f0")
    \/ handleFormSubmit_refetched
TableFetchSettles == GetSettles("f1") \/ fetchAndPopulateTable_then("f1")

FairSpecUI == SpecUI /\ WF_vars(SubmissionSettles) /\ WF_vars(TableFetchSettles)

\* ================================================================== claims
\* p's transaction commits in this step.
CommitStep(p) == pc[p] = "commit" /\ pc'[p] = "idle" /\ status'[p] = 201

\* C1: for every (variant, location) key the committed Balance equals the sum
\* of quantity_change over the committed Movements of the key, and a key
\* without Movements has no row.
C1_BalanceIsSumOfMovements ==
    \A v \in VariantIds, l \in LocationIds :
        LET ms == MovementsOf(stock_movements, v, l)
            rows == RowsOf(stock_levels, v, l)
        IN IF ms = {} THEN rows = {}
           ELSE \E r \in rows : rows = {r} /\ r.quantity = SumChanges(ms)

\* C2: no lost update: every call that commits raises the balance of its key,
\* as it stands at that moment, by exactly its own delta, so concurrent calls
\* on one key end at the earlier balance plus the sum of their deltas.
C2_NoLostUpdate ==
    [][\A p \in Procs :
          CommitStep(p) =>
              Quantity(stock_levels', request[p].product_variant, request[p].location)
                = Quantity(stock_levels, request[p].product_variant, request[p].location)
                  + request[p].quantity_change]_vars

\* C3: after a call has failed inside its atomic block, at whichever statement,
\* the Balance table and the Movement log are what they would be had the call
\* never been made.
C3_FailureLeavesNoEffect ==
    \A p \in Procs : (pc[p] = "idle" /\ status[p] = 500) => Db = before[p]

\* A call failed after its Balance update and before its Movement append, on a
\* key that had a committed row, while other movements stay recorded.
C3_Witness ==
    \E p \in Procs :
        /\ pc[p] = "idle" /\ status[p] = 500 /\ failedAt[p] = "super_save"
        /\ RowsOf(stock_levels, lastData[p].product_variant, lastData[p].location) # {}
        /\ stock_movements # {}

\* C4: no half-applied write is visible: in every step the committed balance
\* of a key changes by exactly the deltas of the Movements of that key that
\* become visible in the step, so a Movement is visible exactly when its delta
\* is part of the visible Balance.
C4_NoHalfAppliedWrite ==
    [][\A v \in Variants, l \in Locations :
          Quantity(stock_levels', v, l) - Quantity(stock_levels, v, l)
            = SumChanges(MovementsOf(stock_movements', v, l)
                           \ MovementsOf(stock_movements, v, l))]_vars

\* C5: a request with quantity_change = 0 is answered with the validation
\* error and changes nothing: no transaction is opened for it, the committed
\* tables are what they would be without it, and no Movement of 0 exists.
C5_ZeroChangeRejected ==
    /\ \A p \in Procs :
          (lastData[p] # NoRequest /\ lastData[p].quantity_change = 0) =>
              /\ status[p] = 400
              /\ pc[p] = "idle"
              /\ written[p] = NoRow /\ ~ logged[p]
              /\ Db = before[p]
    /\ \A m \in stock_movements : m.quantity_change # 0

\* A zero movement on an existing variant and location was rejected while the
\* ledger held rows.
C5_Witness ==
    \E p \in Procs :
        /\ lastData[p].quantity_change = 0
        /\ lastData[p].product_variant \in Variants
        /\ lastData[p].location \in Locations
        /\ status[p] = 400
        /\ stock_levels # {}

\* C6: a request naming a variant or a location that is not in the reference
\* data is answered with the validation error; get_or_create is never reached
\* for it, so no row, pending or committed, and no Movement carries such a key.
C6_UnknownReferenceRejected ==
    /\ \A p \in Procs :
          (lastData[p] # NoRequest
             /\ (lastData[p].product_variant \notin Variants
                 \/ lastData[p].location \notin Locations)) =>
              /\ status[p] = 400
              /\ pc[p] = "idle"
              /\ written[p] = NoRow /\ ~ logged[p]
              /\ Db = before[p]
    /\ \A r \in (stock_levels \cup {written[q] : q \in Procs}) \ {NoRow} :
          r.product_variant \in Variants /\ r.location \in Locations
    /\ \A m \in stock_movements :
          m.product_variant \in Variants /\ m.location \in Locations

\* A nonzero movement on a variant that does not exist was rejected.
C6_Witness ==
    \E p \in Procs :
        /\ lastData[p].product_variant = "variantX"
        /\ lastData[p].location \in Locations
        /\ lastData[p].quantity_change # 0
        /\ status[p] = 400
        /\ stock_levels # {}

\* C7: a key has exactly one committed Balance row when it has a committed
\* Movement and none otherwise, also while get_or_create calls race on it; and
\* when the Movements of (variantA, loc1) are +10 and -3 its single row holds 7.
C7_OneRowPerMovedKey ==
    /\ \A v \in VariantIds, l \in LocationIds :
          Cardinality(RowsOf(stock_levels, v, l))
            = IF MovementsOf(stock_movements, v, l) = {} THEN 0 ELSE 1
    /\ LET ms == MovementsOf(stock_movements, "variantA", "loc1")
       IN (Cardinality(ms) = 2 /\ {m.quantity_change : m \in ms} = {10, -3}) =>
              {r.quantity : r \in RowsOf(stock_levels, "variantA", "loc1")} = {7}

\* Two calls raced on a key without a row: one has committed the row and its
\* Movement while the other, whose SELECT found nothing, is about to INSERT.
C7_Witness ==
    \E p \in Procs :
        /\ pc[p] = "create"
        /\ RowsOf(stock_levels, request[p].product_variant, request[p].location) # {}
        /\ MovementsOf(stock_movements, request[p].product_variant,
                       request[p].location) # {}

\* C8: a successful call adds exactly one Movement, its own, and writes the
\* single row of its key; the rows of every other key and the Movements
\* recorded before are unchanged, and no other step of a call changes the
\* committed tables.
C8_CommitFrame ==
    [][\/ UNCHANGED <<stock_levels, stock_movements>>
       \/ \E p \in Procs :
            /\ CommitStep(p)
            /\ LET v == request[p].product_variant
                   l == request[p].location
               IN /\ \E m \in stock_movements' :
                        /\ m \notin stock_movements
                        /\ stock_movements' = stock_movements \cup {m}
                        /\ m.product_variant = v /\ m.location = l
                        /\ m.quantity_change = request[p].quantity_change
                  /\ stock_levels' \ RowsOf(stock_levels', v, l)
                       = stock_levels \ RowsOf(stock_levels, v, l)
                  /\ Cardinality(RowsOf(stock_levels', v, l)) = 1]_vars

\* A call has succeeded on one key while the other key holds a row.
C8_Witness ==
    /\ \E p \in Procs : pc[p] = "idle" /\ status[p] = 201
    /\ Cardinality(stock_levels) = 2
    /\ Cardinality(stock_movements) >= 2

\* C9: the Movement log only grows: every Movement committed before a step is
\* committed, unchanged, after it.
C9_AppendOnly == [][stock_movements \subseteq stock_movements']_vars

\* A call was rolled back after its Movement INSERT while the log held
\* Movements of earlier calls.
C9_Witness ==
    \E p \in Procs :
        /\ status[p] = 500 /\ failedAt[p] = "commit"
        /\ Cardinality(stock_movements) >= 2

\* C10: no step of the page's table fetch nor of the listing view changes the
\* ledger, and a listing served while no Movement was committed since the
\* previous listing holds the same rows as that one (the listing has no
\* order of its own, so the rows are compared as a collection).
C10_ReadsAreReadOnly ==
    [][\A f \in Fetchers :
          fetchPc'[f] # fetchPc[f] =>
              /\ UNCHANGED <<stock_levels, stock_movements, written, created, logged>>
              /\ (fetchPc'[f] = "responded" /\ response'[f].ok /\ listed.valid) =>
                     Range(response'[f].body) = listed.rows]_vars

\* A second listing of a ledger that holds rows was served with no commit
\* since the first.
C10_Witness ==
    \E f \in Fetchers :
        /\ fetchPc[f] = "responded" /\ response[f].ok
        /\ listed.valid /\ listed.repeat
        /\ Len(response[f].body) > 0

\* ---------------------------------------------------------------- the page
\* C11: a POST answered ok is followed, in this order, by the reset of the
\* form, the re-fetch of the listing being issued and awaited, and the
\* success acknowledgment. The step that takes the ok response resets the
\* form and issues the re-fetch without acknowledging; the re-fetch is issued
\* by no other step of the submission; the acknowledgment is shown only by the
\* step that finds the re-fetch settled; and that step always comes.
C11_SuccessSequence ==
    /\ [][/\ (submitPc = "sent" /\ submitPc' = "refetching") =>
                /\ status["w1"] = 201 /\ calls >= postCall
                /\ form' = EmptyForm
                /\ fetchPc["f0"] = "idle" /\ fetchPc'["f0"] = "pending"
                /\ alert' = alert /\ submitted' = "pending"
          /\ (fetchPc["f0"] # "pending" /\ fetchPc'["f0"] = "pending") =>
                (submitPc = "sent" /\ submitPc' = "refetching")
          /\ (submitted # "success" /\ submitted' = "success") =>
                /\ submitPc = "refetching" /\ fetchPc["f0"] = "responded"
                /\ fetchPc'["f0"] = "idle"
                /\ alert' = "Movement Registered!"]_vars
    /\ (submitPc = "refetching") ~>
           (submitPc = "idle" /\ submitted = "success" /\ alert = "Movement Registered!")

\* A submission was answered 201 and has run to its success acknowledgment.
C11_Witness ==
    /\ submitted = "success" /\ submitPc = "idle"
    /\ alert = "Movement Registered!"
    /\ form = EmptyForm
    /\ stock_movements # {}

\* C12: the form is never reset before the write is confirmed. A submission
\* that ends on a rejected POST or on a non-ok response leaves the form as it
\* was, issues no table fetch, shows the error pop-up and no success; and the
\* form is emptied only by a step that holds the 201 of a recorded Movement.
C12_NoResetBeforeConfirmation ==
    [][/\ (submitPc = "sent" /\ submitPc' = "idle") =>
             /\ form' = form
             /\ fetchPc' = fetchPc /\ stockTableBody' = stockTableBody
             /\ alert' = "Submission Failed"
             /\ submitted' \in {"not ok", "not ok, no JSON", "rejected"}
       /\ (form # EmptyForm /\ form' = EmptyForm) =>
             /\ submitPc = "sent" /\ status["w1"] = 201
             /\ \E m \in stock_movements : m.id = postCall]_vars

\* A submission was answered 400 and the form still holds what was submitted.
C12_Witness ==
    /\ submitted = "not ok" /\ submitPc = "idle"
    /\ status["w1"] = 400
    /\ form \in FormInputs
    /\ alert = "Submission Failed"

\* C13: a run of fetchAndPopulateTable that completes on an ok response with
\* an empty listing leaves the empty-state element shown over an empty table
\* body.
C13_EmptyListingShowsNoData ==
    [][\A f \in PageFetchers :
          (fetchPc[f] = "responded" /\ fetchPc'[f] = "idle"
              /\ response[f].ok /\ response[f].body = << >>) =>
                 (emptyState' /\ stockTableBody' = << >>)]_vars

\* The first load was answered with an empty listing: no error pop-up, the
\* empty state shown.
C13_Witness ==
    /\ fetchPc["f1"] = "idle" /\ reads = 1
    /\ alert = "none"
    /\ emptyState /\ stockTableBody = << >>
    /\ ~ loadingSpinner

\* C14: every failure of a request of the three handlers is caught in the
\* handler and ends in an error state the user sees, and the handler is then
\* ready for the next event. A table fetch that failed ends with the empty
\* state shown, the spinner hidden and, unless handleFormSubmit awaits it, the
\* load error pop-up; the dropdown fetch ends with options or with an error
\* option in both dropdowns; a submission that does not reach its re-fetch
\* ends with the error pop-up and the button enabled. No handler is ever in
\* another position than the ones of its code.
C14_FailuresAreCaught ==
    /\ [](/\ submitPc \in {"idle", "sent", "refetching"}
          /\ dropPc \in {"pending", "done"}
          /\ \A f \in PageFetchers : fetchPc[f] \in {"idle", "pending", "responded"})
    /\ [][/\ \A f \in PageFetchers :
               (fetchPc[f] = "responded" /\ ~ response[f].ok /\ fetchPc'[f] # "responded") =>
                   /\ fetchPc'[f] = "idle"
                   /\ emptyState' /\ ~ loadingSpinner'
                   /\ (f = "f1" => alert' = "error")
          /\ (dropPc = "pending" /\ dropPc' # "pending") =>
                   \/ variantSelect' = "options" /\ locationSelect' = "options"
                   \/ /\ variantSelect' = "Error loading variants"
                      /\ locationSelect' = "Error loading locations"
          /\ (submitPc = "sent" /\ submitPc' \notin {"sent", "refetching"}) =>
                   /\ submitPc' = "idle"
                   /\ alert' = "Submission Failed"
                   /\ submitButton' = ButtonReady]_vars

\* A submission failed, its error pop-up is still the last one fired, and the
\* page has taken the next submit event.
C14_Witness ==
    /\ submitPc = "sent" /\ submitted = "pending"
    /\ alert = "Submission Failed"
    /\ submitButton = ButtonBusy
    /\ stock_movements = {}

\* C15: once a submission has succeeded and no table fetch is in flight, the
\* table shows the ledger as the submitted Movement left it: the rows of a
\* listing fetched after the POST succeeded.
C15_TableReflectsSubmission ==
    (/\ submitted = "success" /\ submitPc = "idle"
     /\ \A f \in PageFetchers : fetchPc[f] = "idle") =>
        Range(stockTableBody) = {TableRow(StockLevelSerializer(r)) : r \in stock_levels}

\* C16: save() adds the signed change with no floor check. The statement that
\* updates the Balance writes the quantity read plus the change whatever the
\* sign of the result (the only other way out of it is a storage failure, 500);
\* no request is answered with a conflict; and the commit of a transaction
\* publishes the Balance it wrote, negative or not, with its Movement.
C16_NoFloorCheck ==
    /\ [](\A p \in Procs : status[p] # 409)
    /\ [][\A p \in Procs :
           /\ (pc[p] = "save" /\ pc'[p] # "save") =>
                  \/ /\ pc'[p] = "super_save"
                     /\ written'[p].quantity =
                            stock_level[p].quantity + request[p].quantity_change
                  \/ /\ pc'[p] = "idle" /\ status'[p] = 500
           /\ (pc[p] = "commit" /\ pc'[p] = "idle" /\ status'[p] = 201) =>
                  /\ written[p] \in stock_levels'
                  /\ MovementRow(p) \in stock_movements']_vars

\* A Movement of -3 on a key with no stock was answered 201 and its Balance
\* is -3.
C16_Witness ==
    \E p \in Procs : \E r \in stock_levels : \E m \in stock_movements :
        /\ pc[p] = "idle" /\ status[p] = 201
        /\ r.quantity = -3
        /\ m.product_variant = r.product_variant /\ m.location = r.location
        /\ m.quantity_change = -3
        /\ Cardinality(stock_movements) = 1

C18_EmptyStateIffNoRows ==
    (\A f \in PageFetchers : fetchPc[f] = "idle") =>
        (emptyState <=> stockTableBody = << >>)

\* C19: the submit button is disabled in every state where the POST of
\* handleFormSubmit or its follow-up re-fetch is pending, so that a submission
\* starts only when none is pending: at most one POST is in flight.
C19_OneSubmissionAtATime ==
    /\ [](submitPc # "idle" => submitButton = ButtonBusy)
    /\ [][(submitPc' = "sent" /\ (submitPc # "sent" \/ postCall' # postCall)) =>
             (submitPc = "idle" /\ submitButton = ButtonReady)]_vars

\* The POST was answered 201 and the re-fetch is being awaited with the button
\* disabled.
C19_Witness ==
    /\ submitPc = "refetching"
    /\ fetchPc["f0"] = "pending"
    /\ submitButton.disabled
    /\ form = EmptyForm

\* C20: every invocation of handleFormSubmit whose requests settle ends, and
\* the step that ends it (after the success pop-up, after a non-ok response
\* with or without a JSON error body, after a rejected POST) leaves the submit
\* button enabled with its label restored; every invocation of
\* fetchAndPopulateTable ends, and the step that ends it hides the spinner
\* (the run awaited by handleFormSubmit ends in the step that ends the
\* submission).
C20_HandlersRestoreTheirControls ==
    /\ [][/\ (submitPc # "idle" /\ submitPc' = "idle") =>
                (/\ submitButton' = ButtonReady
                 /\ submitted' \in {"success", "not ok", "not ok, no JSON", "rejected"})
          /\ \A f \in PageFetchers :
                (fetchPc[f] # "idle" /\ fetchPc'[f] = "idle") => ~ loadingSpinner']_vars
    /\ (submitPc # "idle") ~> (submitPc = "idle" /\ submitButton = ButtonReady)
    /\ [](submitPc = "idle" => fetchPc["f0"] = "idle")
    /\ (fetchPc["f1"] # "idle") ~> (fetchPc["f1"] = "idle" /\ ~ loadingSpinner)

\* A submission was answered 500 with a body that is no JSON; it has ended with
\* the button enabled, and no spinner is shown.
C20_Witness ==
    /\ submitted = "not ok, no JSON" /\ submitPc = "idle"
    /\ status["w1"] = 500
    /\ submitButton = ButtonReady
    /\ \A f \in PageFetchers : fetchPc[f] = "idle"
    /\ ~ loadingSpinner

====
